---- MODULE Spec2Model ----
(***************************************************************************)
(* Model of package rnd (src/rnd.go): a process-wide, pre-seeded, locked   *)
(* random source `global`, the call counter `calls`, and the public        *)
(* operations that wrap `global` and account their cost through reseed(n). *)
(*                                                                         *)
(* Go's int and uint64 are 64 bits wide (64-bit platform).  TLC's integers *)
(* are narrower, so a 64-bit word is kept as four 16-bit limbs, least      *)
(* significant first; an int is the two's complement word.                 *)
(***************************************************************************)
EXTENDS Integers, Sequences, FiniteSets

(***************************************************************************)
(* Bounds of the exploration.                                              *)
(***************************************************************************)
\* Public calls started in a run.
MaxOps == 2

\* Draws the generator counts since its last seeding; from there on the
\* count stays ("MaxServed or more").
MaxServed == 4

\* The concurrent callers.
Threads == {1, 2}

(***************************************************************************)
(* 64-bit words.                                                           *)
(***************************************************************************)
LimbBase == 2^16

Word == [1..4 -> 0..(LimbBase - 1)]

\* The word of a small natural number k < 2^16.
W(k) == <<k, 0, 0, 0>>

\* The word of hi * 2^32 + lo * 2^16 + k.
W3(hi, lo, k) == <<k, lo, hi, 0>>

\* a + b modulo 2^64 (what atomic.AddUint64 and Go's wrapping + compute).
AddU64(a, b) ==
    LET s1 == a[1] + b[1]
        s2 == a[2] + b[2] + (s1 \div LimbBase)
        s3 == a[3] + b[3] + (s2 \div LimbBase)
        s4 == a[4] + b[4] + (s3 \div LimbBase)
    IN  <<s1 % LimbBase, s2 % LimbBase, s3 % LimbBase, s4 % LimbBase>>

\* Two's complement negation: the int -k as a 64-bit word.
NegW(a) ==
    AddU64(<<LimbBase - 1 - a[1], LimbBase - 1 - a[2],
             LimbBase - 1 - a[3], LimbBase - 1 - a[4]>>, W(1))

\* Unsigned a > b.
GtU64(a, b) ==
    \/ a[4] > b[4]
    \/ a[4] = b[4] /\ a[3] > b[3]
    \/ a[4] = b[4] /\ a[3] = b[3] /\ a[2] > b[2]
    \/ a[4] = b[4] /\ a[3] = b[3] /\ a[2] = b[2] /\ a[1] > b[1]

\* n / 8 on a 64-bit magnitude (Go's integer division of a non-negative int).
Div8(n) ==
    <<(n[1] \div 8) + (n[2] % 8) * 2^13,
      (n[2] \div 8) + (n[3] % 8) * 2^13,
      (n[3] \div 8) + (n[4] % 8) * 2^13,
      n[4] \div 8>>

\* math.MaxUint32 = 2^32 - 1.
MaxUint32 == <<LimbBase - 1, LimbBase - 1, 0, 0>>

(***************************************************************************)
(* Go ints: a sign and a magnitude below 2^63 (for -2^63, exactly 2^63).   *)
(***************************************************************************)
\* The int k, for a small integer k.
IntOf(k) == IF k < 0 THEN [neg |-> TRUE, mag |-> W(-k)]
                     ELSE [neg |-> FALSE, mag |-> W(k)]

\* n <= 0 on ints.
NonPositive(n) == n.neg \/ n.mag = W(0)

\* n < 0 on ints.
Negative(n) == n.neg /\ n.mag # W(0)

\* The value of a small non-negative int.
Small(n) == n.mag[1]

\* Mutant of IntDiv8: the byte count itself.
IntNotDivided(n) == n

\* len(p) / 8.
IntDiv8(n) == [neg |-> FALSE, mag |-> Div8(n.mag)]

\* uint64(n) of an int n: n modulo 2^64.
Uint64OfInt(n) == IF n.neg THEN NegW(n.mag) ELSE n.mag

(***************************************************************************)
(* Inputs of the public operations.                                        *)
(***************************************************************************)
\* The functions that return one number and charge one unit.
ScalarOps == {"Int63", "Uint32", "Uint64", "Int31", "Int",
              "Float64", "Float32", "NormFloat64", "ExpFloat64"}

\* The bounded generators, which panic on n <= 0.
BoundedOps == {"Int63n", "Int31n", "Intn"}

\* Bounds passed to Int63n, Int31n, Intn.
BoundArgs == {IntOf(-1), IntOf(0), IntOf(2)}

\* Sizes passed to Perm; the last is 1 << 62.
PermArgs == {IntOf(-1), IntOf(0), IntOf(2),
             [neg |-> FALSE, mag |-> <<0, 0, 0, 2^14>>]}

\* Slices passed to Shuffle (nil and empty both have length 0).
Slices == {<<>>, <<"a">>, <<"a", "b", "a">>}

\* Buffers passed to Read: nil or not, and the length.  The long ones charge
\* 2^32 - 1 and 2^32 units.
Buffers ==
    {[isnil |-> TRUE,  len |-> IntOf(0)],
     [isnil |-> FALSE, len |-> IntOf(0)],
     [isnil |-> FALSE, len |-> IntOf(7)],
     [isnil |-> FALSE, len |-> IntOf(16)],
     [isnil |-> FALSE, len |-> [neg |-> FALSE, mag |-> W3(7, LimbBase - 1, LimbBase - 8)]],
     [isnil |-> FALSE, len |-> [neg |-> FALSE, mag |-> W3(8, 0, 7)]]}

\* The argument of a call: an int, a slice, or a buffer (its length in n).
ArgInt(n) == [n |-> n, s |-> <<>>, isnil |-> FALSE]
ArgSlice(s) == [n |-> IntOf(0), s |-> s, isnil |-> FALSE]
ArgBuf(p) == [n |-> p.len, s |-> <<>>, isnil |-> p.isnil]
NoArg == ArgInt(IntOf(0))

\* What a call has produced: nothing yet, a number (drawn under the seed
\* generation gen; j is the number where its range matters), Perm's slice m,
\* Shuffle's slice s, or Read's (n, err).
NoVal == [kind |-> "none", gen |-> 0, j |-> 0, m |-> <<>>, s |-> <<>>,
          n |-> IntOf(0), err |-> "none"]

\* No entropy value: the generator before Seed, a thread that drew none.
NoSeed == [src |-> "none", id |-> 0]

(***************************************************************************)
(* State.                                                                  *)
(***************************************************************************)
VARIABLES
    calls,        \* var calls uint64
    lk,           \* global's LockedSource mutex: 0 free, else the holder
    engine,       \* global's generator state
    initDone,     \* the package's init() has run
    pc,           \* each thread's position
    op,           \* the public function a thread is in
    arg,          \* its argument
    charge,       \* the n of its reseed(n)
    todo,         \* locked sections its generation call still makes: one for
                  \* each draw, and the single one of Read
    val,          \* the value it is building or returning
    panicking,    \* its generation call panicked; the panic is unwinding
    sd,           \* the entropy value it drew for global.Seed
    started,      \* public calls started so far
    entropyDraws, \* entropy values read so far
    installed,    \* history: the entropy values the generator was seeded with
    charged,      \* history: the sum of the n of all reseed(n) so far
    crossGen,     \* history: engine.gen at the latest add that left the
                  \* sum above math.MaxUint32, -1 if there was none
    entered,      \* history: the sum of the n of all calls started so far
    exceeds,      \* history: the adds that returned more than math.MaxUint32
    rejected      \* its generation call rejected its latest draw

vars == <<calls, lk, engine, initDone, pc, op, arg, charge, todo, val,
          panicking, sd, started, entropyDraws, installed, charged, crossGen,
          entered, exceeds, rejected>>

history == <<installed, charged, crossGen>>

\* var global = rand.New(new(rand.LockedSource)); var calls uint64.
Init ==
    /\ calls = W(0)
    /\ lk = 0
    /\ engine = [seeded |-> FALSE, seed |-> NoSeed, gen |-> 0, served |-> 0,
                 readPos |-> 0]
    /\ initDone = FALSE
    /\ pc = [t \in Threads |-> "idle"]
    /\ op = [t \in Threads |-> "none"]
    /\ arg = [t \in Threads |-> NoArg]
    /\ charge = [t \in Threads |-> IntOf(0)]
    /\ todo = [t \in Threads |-> 0]
    /\ val = [t \in Threads |-> NoVal]
    /\ panicking = [t \in Threads |-> FALSE]
    /\ sd = [t \in Threads |-> NoSeed]
    /\ started = 0
    /\ entropyDraws = 0
    /\ installed = {}
    /\ charged = W(0)
    /\ crossGen = -1
    /\ entered = W(0)
    /\ exceeds = 0
    /\ rejected = [t \in Threads |-> FALSE]

\* new(maphash.Hash).Sum64(): the k-th value read from the entropy source.
\* Every new Hash has a random seed of its own, so each read is a new value,
\* known here by its index.
Sum64(k) == [src |-> "entropy", id |-> k]

\* The generator state after Seed(seed); Seed also drops the bytes Read has
\* left over (readPos = 0).
Seeded(seed) ==
    [seeded |-> TRUE, seed |-> seed, gen |-> engine.gen + 1, served |-> 0,
     readPos |-> 0]

\* func init(): global.Seed(new(maphash.Hash).Sum64()), before any caller runs.
\* Mutant of InitSeed: init() that leaves the generator as constructed.
InitSeedSkipped == engine

InitSeed == Seeded(Sum64(entropyDraws + 1))

init ==
    /\ ~initDone
    /\ engine' = InitSeed
    /\ entropyDraws' = entropyDraws + 1
    /\ installed' = installed \cup {engine'.seed.id}
    /\ initDone' = TRUE
    /\ UNCHANGED <<calls, lk, pc, op, arg, charge, todo, val, panicking, sd,
                   started, charged, crossGen, entered, exceeds, rejected>>

(***************************************************************************)
(* The generation calls on global (golang.org/x/exp/rand), as the package  *)
(* uses them: what they panic on, and how many locked draws of the         *)
(* LockedSource they make.                                                 *)
(***************************************************************************)
\* Mutant of BoundPanics: only a negative bound is refused.
BoundPanicsIfNegative(n) == Negative(n)

\* global.Int63n(n), Int31n(n), Intn(n) panic if n <= 0.
BoundPanics(n) == NonPositive(n)

\* Mutant of PermPanics: a size of 0 is refused too.
PermPanicsOnZero(n) == NonPositive(n)

\* The longest []int make allocates: 8 * n bytes must not exceed the 2^48
\* bytes of the runtime's address space (64-bit platform), so n <= 2^45.
MaxIntSliceLen == <<0, 0, 2^13, 0>>

\* global.Perm(n) allocates make([]int, n), which panics if n < 0 or if n is
\* out of range for the allocator.
PermPanics(n) == Negative(n) \/ GtU64(n.mag, MaxIntSliceLen)

\* global.Perm(n) draws once for each of its n elements.
PermDraws(n) == Small(n)

\* global.Shuffle(n, swap) draws once for each i from n-1 down to 1.
ShuffleDraws(n) == IF n > 1 THEN n - 1 ELSE 0

\* Mutant of Swap: s[i] = s[j] alone.
SwapOverwrites(s, i, j) == [s EXCEPT ![i + 1] = s[j + 1]]

\* swap(i, j) of Shuffle's callback, on 0-based positions.
Swap(s, i, j) == [s EXCEPT ![i + 1] = s[j + 1], ![j + 1] = s[i + 1]]

\* One step of Perm's loop: m[i] = m[j]; m[j] = i.
PermStep(m, i, j) == [[m EXCEPT ![i + 1] = m[j + 1]] EXCEPT ![j + 1] = i]

(***************************************************************************)
(* Public operations: the step that enters the function.  A deferred       *)
(* reseed(n) has its n evaluated here; the generation call then either     *)
(* panics at once or goes on to its locked draws.                          *)
(***************************************************************************)
\* Mutant of AfterPanic: reseed is called after the generation call, not
\* deferred, so a panic leaves the function without it.
PanicSkipsReseed == "ret"

\* Where a panic of the generation call goes: to the deferred reseed.
AfterPanic == "add"

\* Mutant of FirstStep: reseed runs before the generation call.
FirstStepAccounts(draws, fails) == "add"

\* Where a call goes first: to its locked draws if it has any to make.
FirstStep(draws, fails) ==
    IF fails THEN AfterPanic ELSE IF draws = 0 THEN "add" ELSE "lock"

Enter(t, name, a, n, draws, fails, v0) ==
    /\ initDone
    /\ pc[t] = "idle"
    /\ started < MaxOps
    /\ started' = started + 1
    /\ op' = [op EXCEPT ![t] = name]
    /\ arg' = [arg EXCEPT ![t] = a]
    /\ charge' = [charge EXCEPT ![t] = n]
    /\ todo' = [todo EXCEPT ![t] = IF fails THEN 0 ELSE draws]
    /\ val' = [val EXCEPT ![t] = v0]
    /\ panicking' = [panicking EXCEPT ![t] = fails]
    /\ pc' = [pc EXCEPT ![t] = FirstStep(draws, fails)]
    /\ entered' = AddU64(entered, Uint64OfInt(n))
    /\ UNCHANGED <<calls, lk, engine, initDone, sd, entropyDraws, history,
                   exceeds, rejected>>

Int63(t) == Enter(t, "Int63", NoArg, IntOf(1), 1, FALSE, NoVal)

Uint32(t) == Enter(t, "Uint32", NoArg, IntOf(1), 1, FALSE, NoVal)

Uint64(t) == Enter(t, "Uint64", NoArg, IntOf(1), 1, FALSE, NoVal)

Int31(t) == Enter(t, "Int31", NoArg, IntOf(1), 1, FALSE, NoVal)

Int_(t) == Enter(t, "Int", NoArg, IntOf(1), 1, FALSE, NoVal)

Int63n(t) ==
    \E n \in BoundArgs :
        Enter(t, "Int63n", ArgInt(n), IntOf(1), 1, BoundPanics(n), NoVal)

Int31n(t) ==
    \E n \in BoundArgs :
        Enter(t, "Int31n", ArgInt(n), IntOf(1), 1, BoundPanics(n), NoVal)

Intn(t) ==
    \E n \in BoundArgs :
        Enter(t, "Intn", ArgInt(n), IntOf(1), 1, BoundPanics(n), NoVal)

Float64(t) == Enter(t, "Float64", NoArg, IntOf(1), 1, FALSE, NoVal)

Float32(t) == Enter(t, "Float32", NoArg, IntOf(1), 1, FALSE, NoVal)

Perm(t) ==
    \E n \in PermArgs :
        Enter(t, "Perm", ArgInt(n), n, PermDraws(n), PermPanics(n),
              IF PermPanics(n) THEN NoVal
              ELSE [NoVal EXCEPT !.kind = "perm", !.m = [i \in 1..Small(n) |-> 0]])

\* Shuffle's reseed(len(s)) is not deferred: it follows global.Shuffle.
Shuffle(t) ==
    \E s \in Slices :
        Enter(t, "Shuffle", ArgSlice(s), IntOf(Len(s)), ShuffleDraws(Len(s)),
              FALSE, [NoVal EXCEPT !.kind = "slice", !.s = s])

Read(t) ==
    \E p \in Buffers :
        Enter(t, "Read", ArgBuf(p), IntDiv8(p.len), 1, FALSE, NoVal)

NormFloat64(t) == Enter(t, "NormFloat64", NoArg, IntOf(1), 1, FALSE, NoVal)

ExpFloat64(t) == Enter(t, "ExpFloat64", NoArg, IntOf(1), 1, FALSE, NoVal)

(***************************************************************************)
(* A locked draw: LockedSource locks, the generator advances, unlocks.     *)
(***************************************************************************)
\* Mutant of Unlocked: a source without a mutex (rand.NewSource in place of
\* new(rand.LockedSource)).
UnlockedAlways == TRUE

\* sync.Mutex: Lock returns only when no thread holds the mutex.
Unlocked == lk = 0

\* s.lk.Lock() of a draw.
Lock(t) ==
    /\ pc[t] = "lock"
    /\ Unlocked
    /\ lk' = t
    /\ pc' = [pc EXCEPT ![t] = "cs"]
    /\ UNCHANGED <<calls, engine, initDone, op, arg, charge, todo, val,
                   panicking, sd, started, entropyDraws, history, entered,
                   exceeds, rejected>>

\* Mutant of ReadCount: Read returns the words it charges, len(p) / 8.
ReadCountInWords(p) == IntDiv8(p.n)

\* global.Read(p) returns n = len(p) and a nil error.
ReadCount(p) == p.n

\* The values the call can have after this draw.
Drawn(t) ==
    CASE op[t] \in ScalarOps ->
            {[NoVal EXCEPT !.kind = "number", !.gen = engine.gen]}
      [] op[t] \in BoundedOps ->
            {[NoVal EXCEPT !.kind = "number", !.gen = engine.gen, !.j = j] :
                j \in 0..(Small(arg[t].n) - 1)}
      [] op[t] = "Perm" ->
            LET i == Small(arg[t].n) - todo[t]
            IN  {[val[t] EXCEPT !.gen = engine.gen, !.m = PermStep(@, i, j)] :
                    j \in 0..i}
      [] op[t] = "Shuffle" ->
            LET i == todo[t]
            IN  {[val[t] EXCEPT !.gen = engine.gen, !.s = Swap(@, i, j)] :
                    j \in 0..i}
      [] op[t] = "Read" ->
            {[NoVal EXCEPT !.kind = "read", !.gen = engine.gen,
                           !.n = ReadCount(arg[t]), !.err = "nil"]}

\* Mutant of UnlockAfterDraw: the mutex stays held across the accounting.
KeepLockedAfterDraw(t) == t

\* s.lk.Unlock() at the end of a draw: the holder of the mutex afterwards.
UnlockAfterDraw(t) == 0

\* The generator's count of draws after one more.
Served(k) == IF k < MaxServed THEN k + 1 ELSE k

\* The generator's count of draws after d more.
ServedBy(k, d) == IF k + d < MaxServed THEN k + d ELSE MaxServed

\* len(p) is below 2^16.
ShortLen(n) == n.mag[2] = 0 /\ n.mag[3] = 0 /\ n.mag[4] = 0

\* The draws of global.Read(p) in its locked section: it first uses the pos
\* bytes left of the draw before, then draws once for every 8 bytes.  A
\* length of 2^16 or more takes 2^13 draws or more: "MaxServed or more".
ReadDraws(n, pos) ==
    IF ShortLen(n)
    THEN IF n.mag[1] <= pos THEN 0 ELSE (n.mag[1] - pos + 7) \div 8
    ELSE MaxServed

\* The bytes global.Read(p) leaves of its last draw (readPos).
ReadPos(n, pos) ==
    IF ShortLen(n) /\ n.mag[1] <= pos
    THEN pos - n.mag[1]
    ELSE (8 - ((n.mag[1] + 8 - pos) % 8)) % 8

\* The generator after the locked section of thread t's generation call:
\* one draw, or the draws of Read.
AfterDraw(t) ==
    IF op[t] = "Read"
    THEN [engine EXCEPT !.served = ServedBy(@, ReadDraws(arg[t].n, engine.readPos)),
                        !.readPos = ReadPos(arg[t].n, @)]
    ELSE [engine EXCEPT !.served = Served(@)]

\* The draw itself and s.lk.Unlock().
Generate(t) ==
    /\ pc[t] = "cs"
    /\ engine' = AfterDraw(t)
    /\ \E v \in Drawn(t) : val' = [val EXCEPT ![t] = v]
    /\ rejected' = [rejected EXCEPT ![t] = FALSE]
    /\ todo' = [todo EXCEPT ![t] = @ - 1]
    /\ lk' = UnlockAfterDraw(t)
    /\ pc' = [pc EXCEPT ![t] = IF todo[t] = 1 THEN "add" ELSE "lock"]
    /\ UNCHANGED <<calls, initDone, op, arg, charge, panicking, sd, started,
                   entropyDraws, history, entered, exceeds>>

\* n is a power of two (n below 2^16).
PowerOfTwo(n) == \E k \in 0..15 : n = 2^k

\* The generation call can reject the draw it has just made and draw again:
\* Float32 when the float32 of its Float64 rounds to 1, NormFloat64 and
\* ExpFloat64 outside the fast region of their ziggurat, and Uint64n(n), on
\* which Int63n, Int31n, Intn, Perm (n = i + 1) and Shuffle (n = i + 1) draw,
\* when n is not a power of two.
MayDrawAgain(t) ==
    CASE op[t] \in {"Float32", "NormFloat64", "ExpFloat64"} -> TRUE
      [] op[t] \in BoundedOps -> ~PowerOfTwo(Small(arg[t].n))
      [] op[t] = "Perm" -> ~PowerOfTwo(Small(arg[t].n) - todo[t] + 1)
      [] op[t] = "Shuffle" -> ~PowerOfTwo(todo[t] + 1)
      [] OTHER -> FALSE

\* A draw that the generation call rejects, and s.lk.Unlock(): the call
\* goes on to lock and draw again, as often as its draws are rejected.
DrawAgain(t) ==
    /\ pc[t] = "cs"
    /\ MayDrawAgain(t)
    /\ engine' = [engine EXCEPT !.served = Served(@)]
    /\ rejected' = [rejected EXCEPT ![t] = TRUE]
    /\ lk' = UnlockAfterDraw(t)
    /\ pc' = [pc EXCEPT ![t] = "lock"]
    /\ UNCHANGED <<calls, initDone, op, arg, charge, todo, val, panicking, sd,
                   started, entropyDraws, history, entered, exceeds>>

(***************************************************************************)
(* reseed(n).                                                              *)
(***************************************************************************)
\* Mutant of AtomicAdd: every call is counted as one unit.
AtomicAddOne(c, n) == AddU64(c, W(1))

\* Mutant of AtomicAdd: the addition is lost.
AtomicAddLost(c, n) == c

\* atomic.AddUint64(&calls, uint64(n)): the new value.
AtomicAdd(c, n) == AddU64(c, Uint64OfInt(n))

\* Mutant of MustReseed: the test is >= math.MaxUint32.
MustReseedAtThreshold(c) == ~GtU64(MaxUint32, c)

\* Mutant of MustReseed: the test is against 2^32, one off.
MustReseedOneOff(c) == GtU64(c, AddU64(MaxUint32, W(1)))

\* The test of reseed: the new value > math.MaxUint32.
MustReseed(c) == GtU64(c, MaxUint32)

\* The sum of the charges, modulo 2^64 as the counter keeps it, exceeds
\* math.MaxUint32: the unsigned comparison of reseed.
SumExceeds(c) == GtU64(c, MaxUint32)

\* The add, the test and, on the reseeding branch, the entropy draw that is
\* the argument of global.Seed.
reseed(t) ==
    /\ pc[t] = "add"
    /\ calls' = AtomicAdd(calls, charge[t])
    /\ IF MustReseed(calls')
       THEN /\ sd' = [sd EXCEPT ![t] = Sum64(entropyDraws + 1)]
            /\ entropyDraws' = entropyDraws + 1
            /\ pc' = [pc EXCEPT ![t] = "seedlock"]
       ELSE /\ pc' = [pc EXCEPT ![t] = "ret"]
            /\ UNCHANGED <<sd, entropyDraws>>
    /\ charged' = AddU64(charged, Uint64OfInt(charge[t]))
    /\ crossGen' = IF SumExceeds(charged') THEN engine.gen ELSE crossGen
    /\ exceeds' = IF GtU64(calls', MaxUint32) THEN exceeds + 1 ELSE exceeds
    /\ UNCHANGED <<lk, engine, initDone, op, arg, charge, todo, val,
                   panicking, started, installed, entered, rejected>>

\* s.lk.Lock() of global.Seed.
SeedLock(t) ==
    /\ pc[t] = "seedlock"
    /\ Unlocked
    /\ lk' = t
    /\ pc' = [pc EXCEPT ![t] = "seedcs"]
    /\ UNCHANGED <<calls, engine, initDone, op, arg, charge, todo, val,
                   panicking, sd, started, entropyDraws, history, entered,
                   exceeds, rejected>>

\* Mutant of SeedArg: the seed is made from the caller's n.
SeedArgFromCaller(t) == [src |-> "caller", id |-> 0]

\* The value global.Seed is called with.
SeedArg(t) == sd[t]

\* Mutant of UnlockAfterSeed: Seed returns without unlocking.
KeepLockedAfterSeed(t) == t

\* s.lk.Unlock() at the end of Seed: the holder of the mutex afterwards.
UnlockAfterSeed(t) == 0

\* Mutant of CallsAfterSeed: reseeding starts the count again.
CallsResetBySeed == W(0)

\* global.Seed does not touch calls.
CallsAfterSeed == calls

\* The generator is seeded, and s.lk.Unlock().
SeedUnlock(t) ==
    /\ pc[t] = "seedcs"
    /\ engine' = Seeded(SeedArg(t))
    /\ calls' = CallsAfterSeed
    /\ installed' = installed \cup {engine'.seed.id}
    /\ lk' = UnlockAfterSeed(t)
    /\ pc' = [pc EXCEPT ![t] = "ret"]
    /\ UNCHANGED <<initDone, op, arg, charge, todo, val, panicking,
                   sd, started, entropyDraws, charged, crossGen, entered,
                   exceeds, rejected>>

\* The function returns its value, or its panic reaches the caller.
Return(t) ==
    /\ pc[t] = "ret"
    /\ pc' = [pc EXCEPT ![t] = "idle"]
    /\ op' = [op EXCEPT ![t] = "none"]
    /\ arg' = [arg EXCEPT ![t] = NoArg]
    /\ charge' = [charge EXCEPT ![t] = IntOf(0)]
    /\ val' = [val EXCEPT ![t] = NoVal]
    /\ panicking' = [panicking EXCEPT ![t] = FALSE]
    /\ sd' = [sd EXCEPT ![t] = NoSeed]
    /\ UNCHANGED <<calls, lk, engine, initDone, todo, started, entropyDraws,
                   history, entered, exceeds, rejected>>

Call(t) ==
    \/ Int63(t) \/ Uint32(t) \/ Uint64(t) \/ Int31(t) \/ Int_(t)
    \/ Int63n(t) \/ Int31n(t) \/ Intn(t)
    \/ Float64(t) \/ Float32(t)
    \/ Perm(t) \/ Shuffle(t) \/ Read(t)
    \/ NormFloat64(t) \/ ExpFloat64(t)

Step(t) ==
    \/ Lock(t) \/ Generate(t) \/ DrawAgain(t) \/ reseed(t) \/ SeedLock(t) \/ SeedUnlock(t)
    \/ Return(t)

Next ==
    \/ init
    \/ \E t \in Threads : Call(t)
    \/ \E t \in Threads : Step(t)

Spec == Init /\ [][Next]_vars

(***************************************************************************)
(* Liveness.  A thread that can take a step eventually takes it (the Go    *)
(* scheduler), and a thread that waits for the mutex gets it if the mutex  *)
(* is free again and again (sync.Mutex hands the lock to a waiter that has *)
(* been starved of it); nothing obliges a caller to start a call, and      *)
(* nothing obliges a draw to be accepted.                                  *)
(***************************************************************************)
LiveSpec ==
    /\ Init
    /\ [][Next]_vars
    /\ WF_vars(init)
    /\ \A t \in Threads :
          /\ WF_vars(Step(t))
          /\ SF_vars(Lock(t))
          /\ SF_vars(SeedLock(t))

(***************************************************************************)
(* Properties.                                                             *)
(***************************************************************************)
InCritical(t) == pc[t] \in {"cs", "seedcs"}

\* Thread t takes the step of reseed that adds and tests.
Adds(t) == pc[t] = "add" /\ pc'[t] # "add"

\* C1: the accounting step of every operation adds its n to calls (modulo
\* 2^64), and whenever the value the add returns is above 2^32 - 1 the same
\* thread reads a new entropy value at once and then seeds the generator
\* with it before the call ends.
C1_AddThenReseed ==
    [][\A t \in Threads :
          /\ Adds(t) =>
                /\ calls' = AddU64(calls, Uint64OfInt(charge[t]))
                /\ GtU64(calls', MaxUint32) =>
                      /\ pc'[t] = "seedlock"
                      /\ entropyDraws' = entropyDraws + 1
                      /\ sd'[t] = [src |-> "entropy", id |-> entropyDraws']
          /\ pc[t] = "seedlock" /\ pc'[t] # "seedlock" => pc'[t] = "seedcs"
          /\ pc[t] = "seedcs" /\ pc'[t] # "seedcs" =>
                /\ pc'[t] = "ret"
                /\ engine'.seed = sd[t]
                /\ engine'.gen = engine.gen + 1]_vars

\* A call whose add returned exactly 2^32 has seeded the generator with the
\* entropy value it read.
C1_Witness ==
    \E t \in Threads :
        /\ pc[t] = "ret"
        /\ calls = AddU64(MaxUint32, W(1))
        /\ sd[t].src = "entropy"
        /\ engine.seed = sd[t]

\* C2: at most one thread is inside the generator at any time, that thread
\* holds the mutex, and the generator's state changes only in a step of the
\* thread that holds the mutex (init seeds before any other thread exists).
C2_EngineUnderLock ==
    /\ [](/\ Cardinality({t \in Threads : InCritical(t)}) <= 1
          /\ \A t \in Threads : InCritical(t) <=> lk = t)
    /\ [][engine' # engine =>
             \/ ~initDone
             \/ \E t \in Threads :
                    lk = t /\ InCritical(t) /\ pc'[t] \notin {"cs", "seedcs"}]_vars

\* One thread is seeding the generator while the other waits for the mutex
\* to draw.
C2_Witness ==
    \E t, u \in Threads : pc[t] = "seedcs" /\ lk = t /\ pc[u] = "lock"

\* C3: every seed the generator gets, in init and in every reseed, is an
\* entropy value read for that seeding and used for no seeding before; the
\* step that enters a public operation never changes the generator.
C3_SeedsAreFreshEntropy ==
    [][/\ engine'.gen # engine.gen =>
             /\ engine'.gen = engine.gen + 1
             /\ engine'.seed.src = "entropy"
             /\ engine'.seed.id \in 1..entropyDraws'
             /\ engine'.seed.id \notin installed
       /\ (\E t \in Threads : pc[t] = "idle" /\ pc'[t] # "idle") =>
             engine' = engine]_vars

\* The generator has been seeded three times (init and two reseeds), with
\* three entropy values.
C3_Witness == engine.gen = 3 /\ Cardinality(installed) = 3

\* C4: init seeds the generator once, from an entropy value, before any
\* public operation starts, so every draw is from a seeded generator.
C4_SeededBeforeFirstDraw ==
    /\ [](/\ ~initDone =>
                /\ engine.gen = 0
                /\ started = 0
                /\ \A t \in Threads : pc[t] = "idle"
          /\ initDone => engine.seeded /\ engine.gen >= 1
          /\ \A t \in Threads :
                pc[t] \in {"lock", "cs"} => engine.seeded /\ engine.gen >= 1)
    /\ [][~initDone /\ initDone' =>
              /\ engine'.gen = 1
              /\ engine'.seeded
              /\ engine'.seed.src = "entropy"
              /\ entropyDraws' = 1]_vars

\* The first draw: a thread is inside the generator, which has its seed of
\* init and has served no draw yet.
C4_Witness ==
    \E t \in Threads : pc[t] = "cs" /\ engine.gen = 1 /\ engine.served = 0

\* C5: a bounded generator called with n <= 0 panics: it makes no draw, has
\* no value, and leaves by its panic.
C5_NonPositiveBoundPanics ==
    \A t \in Threads :
        op[t] \in BoundedOps /\ NonPositive(arg[t].n) =>
            /\ panicking[t]
            /\ val[t] = NoVal
            /\ pc[t] \in {"add", "seedlock", "seedcs", "ret"}

\* Int31n(0) ends in its panic while Intn(-1) is unwinding.
C5_Witness ==
    \E t, u \in Threads :
        /\ pc[t] = "ret" /\ op[t] = "Int31n" /\ arg[t].n = IntOf(0)
        /\ panicking[t]
        /\ op[u] = "Intn" /\ arg[u].n = IntOf(-1) /\ panicking[u]

\* The inputs a generation call panics on.
BadBound(t) == op[t] \in BoundedOps /\ NonPositive(arg[t].n)
BadSize(t) ==
    /\ op[t] = "Perm"
    /\ Negative(arg[t].n) \/ GtU64(arg[t].n.mag, <<0, 0, 2^13, 0>>)

\* C6 as claimed: a call panics only when it is a bounded generator with a
\* bound n <= 0.
C6_OnlyBoundsPanic ==
    \A t \in Threads : panicking[t] => BadBound(t)

\* C6, amended: a call panics exactly when it is a bounded generator with a
\* bound n <= 0 or Perm with a size n < 0 or n > 2^45, which make cannot
\* allocate; every other call returns with its value.
C6_PanicsOnlyOnBadArgument ==
    \A t \in Threads :
        pc[t] # "idle" =>
            /\ panicking[t] <=> (BadBound(t) \/ BadSize(t))
            /\ pc[t] = "ret" /\ ~panicking[t] => val[t].kind # "none"

\* Perm(0) returns its empty slice while Perm(-1) ends in its panic.
C6_Witness ==
    \E t, u \in Threads :
        /\ pc[t] = "ret" /\ op[t] = "Perm" /\ arg[t].n = IntOf(0)
        /\ ~panicking[t] /\ val[t].kind = "perm" /\ val[t].m = <<>>
        /\ pc[u] = "ret" /\ op[u] = "Perm" /\ arg[u].n = IntOf(-1)
        /\ panicking[u]

\* C7: Read returns (len(p), nil) for every buffer, nil and empty included,
\* whatever the counter and the generator are.
C7_ReadReturnsLenAndNil ==
    \A t \in Threads :
        op[t] = "Read" /\ pc[t] \in {"add", "seedlock", "seedcs", "ret"} =>
            /\ ~panicking[t]
            /\ val[t].kind = "read"
            /\ val[t].n = arg[t].n
            /\ val[t].err = "nil"

\* Read(nil) returns (0, nil) with the counter above the threshold, after
\* seeding the generator itself.
C7_Witness ==
    \E t \in Threads :
        /\ pc[t] = "ret" /\ op[t] = "Read" /\ arg[t].isnil
        /\ val[t].n = IntOf(0) /\ val[t].err = "nil"
        /\ GtU64(calls, MaxUint32) /\ engine.seed = sd[t]

\* C8: after every add that leaves the sum of the charged units above
\* 2^32 - 1, the generator is eventually seeded again.
C8_CrossingLeadsToReseed ==
    \A g \in 0..(MaxOps + 1) : (crossGen = g) ~> (engine.gen > g)

\* Both threads crossed the threshold under the seed of init and both have
\* seeded the generator since.
C8_Witness ==
    /\ crossGen = 1
    /\ engine.gen = 3
    /\ \A t \in Threads : pc[t] = "ret" /\ sd[t].src = "entropy"

C10_AddOutsideLock ==
    \A t \in Threads :
        /\ lk = t => pc[t] \in {"cs", "seedcs"}
        /\ pc[t] = "add" =>
              /\ lk # t
              /\ todo[t] = 0
              /\ op[t] \in ScalarOps \cup {"Read"} => val[t].gen >= 1
              /\ op[t] \in BoundedOps /\ ~panicking[t] => val[t].gen >= 1

\* A thread is at its add, its draw made and the mutex released, while the
\* other thread holds the mutex for a draw.
C10_Witness ==
    \E t, u \in Threads :
        /\ pc[t] = "add" /\ val[t].kind = "number"
        /\ pc[u] = "cs" /\ lk = u

\* C11 as claimed: every add is of an n >= 0, and the counter goes down only
\* by wrapping past 2^64 from its upper half.
C11_CounterNeverDecreases ==
    [][\A t \in Threads :
          Adds(t) =>
              /\ ~Negative(charge[t])
              /\ GtU64(calls, calls') => calls[4] >= 2^15]_vars

\* C12 as claimed: once an add has returned more than 2^32 - 1, every later
\* add returns more than 2^32 - 1 and its thread reseeds.
C12_ExceededForGood ==
    [][\A t \in Threads :
          Adds(t) /\ exceeds > 0 =>
              /\ GtU64(calls', MaxUint32)
              /\ pc'[t] = "seedlock"]_vars

\* The number of positions of s that hold x.
Count(s, x) == Cardinality({i \in 1..Len(s) : s[i] = x})

Elems(s) == {s[i] : i \in 1..Len(s)}

SameMultiset(a, b) ==
    /\ Len(a) = Len(b)
    /\ \A x \in Elems(a) \cup Elems(b) : Count(a, x) = Count(b, x)

\* C13: Shuffle changes s only by swapping two of its positions, so s keeps
\* its length and its multiset of elements; a slice of length 0 or 1 is left
\* as it is, without a panic.
C13_ShufflePermutes ==
    /\ [](\A t \in Threads :
            op[t] = "Shuffle" =>
                /\ ~panicking[t]
                /\ SameMultiset(val[t].s, arg[t].s)
                /\ Len(arg[t].s) <= 1 => val[t].s = arg[t].s)
    /\ [][\A t \in Threads :
            op[t] = "Shuffle" /\ pc[t] = "cs" /\ val'[t].s # val[t].s =>
                \E i, j \in 1..Len(val[t].s) :
                    val'[t].s = [val[t].s EXCEPT ![i] = val[t].s[j],
                                                 ![j] = val[t].s[i]]]_vars

\* Shuffle of a, b, a returns with the slice in another order.
C13_Witness ==
    \E t \in Threads :
        /\ pc[t] = "ret" /\ op[t] = "Shuffle"
        /\ arg[t].s = <<"a", "b", "a">> /\ val[t].s = <<"b", "a", "a">>

\* C14: whenever no call is in flight, the counter is the sum modulo 2^64 of
\* the units of all the calls made, however their adds interleaved.
C14_NoLostUpdate ==
    (\A t \in Threads : pc[t] = "idle") => calls = entered

\* Two calls are over, a long Read and a one-unit call, and the counter is
\* 2^32 + 1.
C14_Witness ==
    /\ \A t \in Threads : pc[t] = "idle"
    /\ started = 2
    /\ calls = AddU64(MaxUint32, W(2))

\* 8 * c modulo 2^64.
Times8(c) ==
    LET c2 == AddU64(c, c)
        c4 == AddU64(c2, c2)
    IN  AddU64(c4, c4)

\* The units of the table for thread t's call.
ChargesAsTabled(t) ==
    CASE op[t] \in ScalarOps \cup BoundedOps -> charge[t] = IntOf(1)
      [] op[t] = "Perm" -> charge[t] = arg[t].n
      [] op[t] = "Shuffle" -> charge[t] = IntOf(Len(arg[t].s))
      [] op[t] = "Read" ->
            /\ ~charge[t].neg
            /\ \E r \in 0..7 :
                  AddU64(Times8(charge[t].mag), W(r)) = arg[t].n.mag

\* C15: every call charges the units of the table: 1 for the scalar and the
\* bounded generators, n for Perm(n), len(s) for Shuffle(s), len(p) / 8
\* rounded down for Read(p); the first call of a run leaves exactly its
\* units in the counter.
C15_ChargesAsTabled ==
    \A t \in Threads :
        pc[t] # "idle" =>
            /\ ChargesAsTabled(t)
            /\ started = 1 /\ pc[t] \in {"seedlock", "seedcs", "ret"} =>
                  calls = Uint64OfInt(charge[t])

\* A Read of 7 bytes, the only call so far, returns with the counter at 0.
C15_Witness ==
    \E t \in Threads :
        /\ pc[t] = "ret" /\ op[t] = "Read" /\ arg[t].n = IntOf(7)
        /\ started = 1 /\ calls = W(0)

\* C16: calls is written by the add of reseed alone; seeding the generator
\* leaves it as it is.
C16_SeedKeepsCounter ==
    [][/\ calls' # calls =>
             \E t \in Threads :
                 Adds(t) /\ calls' = AddU64(calls, Uint64OfInt(charge[t]))
       /\ engine'.gen # engine.gen => calls' = calls]_vars

\* Both calls of a run have reseeded and the counter is still above the
\* threshold.
C16_Witness ==
    /\ engine.gen = 3
    /\ GtU64(calls, MaxUint32)
    /\ \A t \in Threads : pc[t] = "idle"

\* C17: a call ends in its panic only after its add: a bounded generator
\* that panics has charged its 1 unit and, when the add returned more than
\* 2^32 - 1, has seeded the generator, before the panic reaches the caller.
C17_PanicStillAccounts ==
    /\ [](\A t \in Threads : BadBound(t) => charge[t] = IntOf(1))
    /\ [][\A t \in Threads :
            panicking'[t] /\ pc'[t] = "ret" /\ pc[t] # "ret" =>
                \/ /\ Adds(t)
                   /\ calls' = AddU64(calls, Uint64OfInt(charge[t]))
                   /\ ~GtU64(calls', MaxUint32)
                \/ /\ pc[t] = "seedcs"
                   /\ sd[t].src = "entropy"
                   /\ engine'.seed = sd[t]]_vars

\* A bounded generator ends in its panic after seeding the generator.
C17_Witness ==
    \E t \in Threads :
        /\ pc[t] = "ret" /\ BadBound(t) /\ panicking[t]
        /\ sd[t].src = "entropy" /\ engine.seed = sd[t]

\* C18: a call reaches its add with all its draws made and its value fixed;
\* the value does not change afterwards, and the seed the call installs is
\* newer than the one its value was drawn under.
C18_AccountingFollowsGeneration ==
    /\ [](\A t \in Threads :
            pc[t] \in {"add", "seedlock", "seedcs", "ret"} =>
                /\ todo[t] = 0
                /\ ~panicking[t] => val[t].kind # "none"
                /\ val[t].gen <= engine.gen
                /\ sd[t].src = "entropy" /\ engine.seed = sd[t] =>
                      val[t].gen < engine.gen)
    /\ [][\A t \in Threads :
            pc[t] \in {"add", "seedlock", "seedcs"} => val'[t] = val[t]]_vars

\* A number drawn under the seed of init is returned by the call that then
\* installed the second seed.
C18_Witness ==
    \E t \in Threads :
        /\ pc[t] = "ret" /\ val[t].kind = "number" /\ val[t].gen = 1
        /\ sd[t].src = "entropy" /\ engine.seed = sd[t] /\ engine.gen = 2

\* C19: entropy is read once by init and once for every add that returned
\* more than 2^32 - 1, and never otherwise: the seedings after init, with
\* the threads about to seed, are as many as those adds, and while no add
\* has returned more than 2^32 - 1 the generator has its seed of init.
C19_NoSpuriousReseed ==
    initDone =>
        /\ entropyDraws = 1 + exceeds
        /\ exceeds = (engine.gen - 1)
                     + Cardinality({t \in Threads :
                                       pc[t] \in {"seedlock", "seedcs"}})
        /\ exceeds = 0 => engine.gen = 1 /\ \A t \in Threads : sd[t] = NoSeed

\* A Read that brought the counter to exactly 2^32 - 1 returns without a
\* reseed.
C19_Witness ==
    \E t \in Threads :
        /\ pc[t] = "ret" /\ op[t] = "Read"
        /\ calls = MaxUint32
        /\ entropyDraws = 1 /\ engine.gen = 1 /\ sd[t] = NoSeed

====
